---- MODULE Spec2Model ----
(***************************************************************************)
(* Model of scheduler/docker/docker.go: the DockerScheduler that keeps a   *)
(* per-task ledger of containers (taskContainers), scales tasks up and     *)
(* down through goroutines joined by the WaitGroup `scaling`               *)
(* (StopStartTasks, startTask, stopTask) and reconciles the ledger with    *)
(* the container list reported by the Docker daemon (CountAllTasks).       *)
(***************************************************************************)
EXTENDS Integers, Sequences, FiniteSets, Bags, TLC

(* ------------------------------ bounds --------------------------------- *)

\* Container identifiers the daemon can hand out (12-character prefixes).
MaxIds == 2
\* Largest demand the demand engine sets for a task when it moves one task.
MaxDemand == 2
\* Largest demand the demand engine sets for a task when it moves both.
MaxDuoDemand == 1
\* Largest number of actuation goroutines alive at once.
MaxUnits == 2
\* Largest number of things going wrong in one run: a failed daemon call, a
\* container changing status behind the scheduler's back, InitScheduler
\* called again for a task it already manages.
MaxFaults == 1

Ids == 1 .. MaxIds
\* The task collection (demand.Tasks) handed to every pass.
Tasks == {"a", "b"}

(* ------------------------- daemon status strings ----------------------- *)

\* A status string is modelled by the sequence of its fragments;
\* strings.Contains(status, w) is the presence of fragment w.
StatusUp == <<"Up", " 2 minutes">>
StatusRemoval == <<"Removal", " In Progress">>
StatusExited == <<"Exit", "ed (0) 1 minute ago">>
StatusDead == <<"Dead">>
StatusCreated == <<"Created">>
\* No container with this identifier is known to the daemon.
NoContainer == <<>>

Statuses == {StatusUp, StatusRemoval, StatusExited, StatusDead, StatusCreated}

Contains(status, w) == \E i \in DOMAIN status : status[i] = w

statusToState(status) ==
    IF Contains(status, "Up") THEN "running"
    ELSE IF Contains(status, "Removal") THEN "removing"
    ELSE IF Contains(status, "Exit") THEN "exited"
    ELSE IF Contains(status, "Dead") THEN "dead"
    ELSE "unknown"

(* ------------------------------ records -------------------------------- *)

\* The states the code ever writes into dockerContainer.state ("" is the
\* zero value of a record created by CountAllTasks).
RecStates == {"", "created", "starting", "running", "stopping", "removing", "dead"}

\* Marks a key that is not in the map taskContainers[task].
NoRecord == [state |-> "<absent>", updated |-> FALSE]

dockerContainer(s) == [state |-> s, updated |-> FALSE]

EmptyMap == [id \in Ids |-> NoRecord]

VARIABLES
    pullImages,      \* DockerScheduler.pullImages
    taskContainers,  \* DockerScheduler.taskContainers: task -> id -> record
    hasMap,          \* the tasks that have an entry in taskContainers
    cLock,           \* holder of the DockerScheduler mutex ("" is free)
    tasksLock,       \* holder of the demand.Tasks mutex ("" is free)
    demand, requested, running,   \* Task.Demand, Task.Requested, Task.Running
    scaling,         \* the WaitGroup counter
    units,           \* bag of the live startTask / stopTask goroutines
    docker,          \* the daemon: id -> [status, label]
    panicked,        \* the process died of a runtime panic
    faults,          \* the number of things that went wrong so far
    \* StopStartTasks
    spc, tooMany, tooFew, cur, left, err,
    \* what the running StopStartTasks pass has done so far
    req0, nStop, nStart, stopFailed,
    \* CountAllTasks
    opc, containers,
    \* InitScheduler
    ipc, itask, initErr,
    \* history: the containers whose stop goroutine stopped and removed them
    \* and whose record is still in the ledger
    gone,
    \* history: the containers a stopTask call has picked as containerToKill
    picked,
    \* history: what the latest CountAllTasks passes did
    hist

progVars == <<pullImages, taskContainers, hasMap, cLock, tasksLock,
              demand, requested, running, scaling, units, docker, panicked>>
scaleVars == <<spc, tooMany, tooFew, cur, left, err, req0, nStop, nStart, stopFailed>>
obsVars == <<opc, containers>>
initVars == <<ipc, itask, initErr>>
vars == <<progVars, scaleVars, obsVars, initVars, faults, gone, picked, hist>>

NoList == [id \in Ids |-> [status |-> NoContainer, label |-> ""]]
Zero == [t \in Tasks |-> 0]
\* passes: how many passes in a row applied the list `list` (0, 1 or 2);
\* store, running, anoms: the ledger, the counts and the messages of the
\* first of them; again: the messages of the second; busy: the containers
\* the latest pass counted as running while their record was stopping or
\* removing.
NoHist == [passes |-> 0, list |-> NoList, store |-> [t \in Tasks |-> EmptyMap],
           running |-> Zero, anoms |-> {}, again |-> {}, busy |-> {}]

\* NewScheduler, and a task collection whose counters are all zero.
Init ==
    /\ pullImages = TRUE
    /\ taskContainers = [t \in Tasks |-> EmptyMap]
    /\ hasMap = {}
    /\ cLock = ""
    /\ tasksLock = ""
    /\ demand = Zero /\ requested = Zero /\ running = Zero
    /\ scaling = 0
    /\ units = EmptyBag
    /\ docker = NoList
    /\ panicked = FALSE
    /\ faults = 0
    /\ spc = "idle" /\ tooMany = {} /\ tooFew = {} /\ cur = "" /\ left = 0
    /\ err = "nil"
    /\ req0 = Zero /\ nStop = Zero /\ nStart = Zero /\ stopFailed = FALSE
    /\ opc = "idle" /\ containers = NoList
    /\ ipc = "idle" /\ itask = "" /\ initErr = "nil"
    /\ gone = {} /\ picked = {}
    /\ hist = NoHist

(* ------------------------------ helpers -------------------------------- *)

Alive == ~panicked

\* One more thing goes wrong, or nothing does.
Fault == faults < MaxFaults /\ faults' = faults + 1
NoFault == UNCHANGED faults

RECURSIVE Sum(_, _)
Sum(f, S) == IF S = {} THEN 0
             ELSE LET x == CHOOSE y \in S : TRUE IN f[x] + Sum(f, S \ {x})

Abs(n) == IF n < 0 THEN -n ELSE n

\* An actuation goroutine: kind "start" or "stop", the task it acts for, the
\* container it acts on (0 before CreateContainer returned), the next step it
\* takes, and whether the StopStartTasks pass that spawned it is still running.
Unit(kind, t, id, pc, mine) == [kind |-> kind, task |-> t, id |-> id, pc |-> pc, mine |-> mine]

Spawn(u) == units (+) SetToBag({u})
Retire(u) == units (-) SetToBag({u})
Step(u, v) == (units (-) SetToBag({u})) (+) SetToBag({v})

(* ---------------------------- the demand engine ------------------------ *)

\* The demand engine sets Task.Demand under the task collection's lock.
SetDemand(t, d) ==
    /\ Alive
    /\ tasksLock = ""
    /\ d # demand[t]
    /\ demand' = [demand EXCEPT ![t] = d]
    /\ NoFault
    /\ UNCHANGED <<pullImages, taskContainers, hasMap, cLock, tasksLock, requested,
                   running, scaling, units, docker, panicked>>
    /\ UNCHANGED <<scaleVars, obsVars, initVars, gone, picked, hist>>

(* ------------------------------ InitScheduler -------------------------- *)

\* Line 61: the task's map is replaced by a fresh empty one.
InitMap(t) == EmptyMap

\* Lines 58-61, and the return at 78 when no image is pulled.
InitScheduler(t) ==
    /\ Alive
    /\ ipc = "idle"
    /\ cLock = ""
    /\ taskContainers' = [taskContainers EXCEPT ![t] = InitMap(t)]
    /\ hasMap' = hasMap \cup {t}
    /\ IF t \in hasMap THEN Fault ELSE NoFault
    /\ initErr' = "nil"
    /\ IF pullImages
          THEN cLock' = "InitScheduler" /\ ipc' = "pull" /\ itask' = t
          ELSE cLock' = "" /\ ipc' = "idle" /\ itask' = ""
    /\ gone' = {id \in gone : \E r \in Tasks : taskContainers'[r][id] # NoRecord}
    /\ UNCHANGED picked
    /\ UNCHANGED <<pullImages, tasksLock, demand, requested, running, scaling,
                   units, docker, panicked>>
    /\ UNCHANGED <<scaleVars, obsVars, hist>>

\* Lines 72-78: PullImage returns while the mutex is held; the deferred Unlock.
PullImage(ok) ==
    /\ Alive
    /\ ipc = "pull"
    /\ initErr' = IF ok THEN "nil" ELSE "pull failed"
    /\ IF ok THEN NoFault ELSE Fault
    /\ cLock' = ""
    /\ ipc' = "idle"
    /\ itask' = ""
    /\ UNCHANGED <<pullImages, taskContainers, hasMap, tasksLock, demand, requested,
                   running, scaling, units, docker, panicked>>
    /\ UNCHANGED <<scaleVars, obsVars, gone, picked, hist>>

(* ------------------------------ StopStartTasks ------------------------- *)

\* A gate that lets every task through.
AlwaysOpen(t) == TRUE

\* Lines 204 and 209: the gate of the partition.
NotChanging(t) == requested[t] = running[t]

TooFew == {t \in Tasks : demand[t] > requested[t] /\ NotChanging(t)}
TooMany == {t \in Tasks : demand[t] < requested[t] /\ NotChanging(t)}

\* A scale-up loop of one iteration, whatever the difference.
OneStart(t) == 1

\* Lines 217 and 230.
StopDiff(t) == requested[t] - demand[t]
StartDiff(t) == demand[t] - requested[t]

\* The two loops in the other order.
UpBeforeDown(many, few) ==
    IF few # {} THEN "up" ELSE IF many # {} THEN "down" ELSE "wait"

\* Lines 215-236: the scale-down loop runs to its end before the scale-up loop.
Phase(many, few) ==
    IF many # {} THEN "down" ELSE IF few # {} THEN "up" ELSE "wait"

Planned == Sum([t \in Tasks |-> Abs(demand[t] - requested[t])], TooFew \cup TooMany)

\* Lines 198-213: lock the task collection and partition it.
StopStartTasks ==
    /\ Alive
    /\ spc = "idle"
    /\ tasksLock = ""
    /\ BagCardinality(units) + Planned <= MaxUnits
    /\ tasksLock' = "StopStartTasks"
    /\ NoFault
    /\ tooMany' = TooMany
    /\ tooFew' = TooFew
    /\ spc' = Phase(TooMany, TooFew)
    /\ cur' = "" /\ left' = 0 /\ err' = "nil"
    /\ req0' = requested /\ nStop' = Zero /\ nStart' = Zero /\ stopFailed' = FALSE
    /\ UNCHANGED <<pullImages, taskContainers, hasMap, cLock, demand, requested,
                   running, scaling, units, docker, panicked>>
    /\ UNCHANGED <<obsVars, initVars, gone, picked, hist>>

\* A pick that takes a container whatever an earlier pick marked.
KillableAgain(t) == {id \in Ids : taskContainers[t][id].state \in {"running", "stopping"}}

\* Lines 147-153: the records of the task a stop may pick.
Killable(t) == {id \in Ids : taskContainers[t][id].state = "running"}

\* Lines 220-223: the error variable after one stopTask call.
ErrAfterStop(old, new) == new

\* One iteration of the loop at 219-225: stopTask (lines 144-188) picks a
\* running record and marks it stopping under the mutex, spawns the goroutine
\* or fails at 157, and Requested is decremented.
stopTask ==
    /\ Alive
    /\ spc = "down"
    /\ cLock = ""
    /\ \E t \in tooMany :
        /\ cur \in {"", t}
        /\ LET d == IF cur = "" THEN StopDiff(t) ELSE left
               many == IF d = 1 THEN tooMany \ {t} ELSE tooMany
           IN  /\ \/ /\ Killable(t) = {}
                     /\ err' = ErrAfterStop(err, "NoContainerToStop")
                     /\ stopFailed' = TRUE
                     /\ UNCHANGED <<taskContainers, units, picked>>
                  \/ \E containerToKill \in Killable(t) :
                     /\ taskContainers' = [taskContainers EXCEPT
                            ![t][containerToKill].state = "stopping"]
                     /\ units' = Spawn(Unit("stop", t, containerToKill, "add", TRUE))
                     /\ picked' = picked \cup {containerToKill}
                     /\ err' = ErrAfterStop(err, "nil")
                     /\ UNCHANGED stopFailed
               /\ requested' = [requested EXCEPT ![t] = @ - 1]
               /\ nStop' = [nStop EXCEPT ![t] = @ + 1]
               /\ left' = d - 1
               /\ cur' = IF d = 1 THEN "" ELSE t
               /\ tooMany' = many
               /\ spc' = IF d = 1 THEN Phase(many, tooFew) ELSE "down"
    /\ UNCHANGED <<pullImages, hasMap, cLock, tasksLock, demand, running, scaling,
                   docker, panicked>>
    /\ UNCHANGED <<tooFew, req0, nStart, obsVars, initVars, faults, gone, hist>>

\* One iteration of the loop at 232-235: startTask (lines 82-137) spawns the
\* goroutine and Requested is incremented.
startTask ==
    /\ Alive
    /\ spc = "up"
    /\ \E t \in tooFew :
        /\ cur \in {"", t}
        /\ LET d == IF cur = "" THEN StartDiff(t) ELSE left
               few == IF d = 1 THEN tooFew \ {t} ELSE tooFew
           IN  /\ units' = Spawn(Unit("start", t, 0, "add", TRUE))
               /\ requested' = [requested EXCEPT ![t] = @ + 1]
               /\ nStart' = [nStart EXCEPT ![t] = @ + 1]
               /\ left' = d - 1
               /\ cur' = IF d = 1 THEN "" ELSE t
               /\ tooFew' = few
               /\ spc' = IF d = 1 THEN Phase(tooMany, few) ELSE "up"
    /\ UNCHANGED <<pullImages, taskContainers, hasMap, cLock, tasksLock, demand,
                   running, scaling, docker, panicked>>
    /\ UNCHANGED <<tooMany, err, req0, nStop, stopFailed, obsVars, initVars, faults, gone, picked, hist>>

\* The goroutines of a pass that has returned are no longer its own.
Disown(b) == [u \in {[v EXCEPT !.mine = FALSE] : v \in BagToSet(b)} |->
                CopiesIn([u EXCEPT !.mine = TRUE], b) + CopiesIn(u, b)]

\* Line 239: scaling.Wait() returns when the counter is zero.
WaitReturns == scaling = 0

\* A return that takes the pass's own count for the observed one.
ScaleReturnSynced ==
    /\ Alive
    /\ spc = "wait"
    /\ WaitReturns
    /\ tasksLock' = ""
    /\ spc' = "idle"
    /\ units' = Disown(units)
    /\ err' = "nil" /\ stopFailed' = FALSE
    /\ req0' = Zero /\ nStop' = Zero /\ nStart' = Zero
    /\ running' = requested
    /\ UNCHANGED <<pullImages, taskContainers, hasMap, cLock, demand, requested,
                   scaling, docker, panicked>>
    /\ UNCHANGED <<tooMany, tooFew, cur, left, obsVars, initVars, faults, gone, picked, hist>>

\* Lines 239-240 and the deferred Unlock of 199.
ScaleReturn ==
    /\ Alive
    /\ spc = "wait"
    /\ WaitReturns
    /\ tasksLock' = ""
    /\ spc' = "idle"
    /\ units' = Disown(units)
    /\ err' = "nil" /\ stopFailed' = FALSE
    /\ req0' = Zero /\ nStop' = Zero /\ nStart' = Zero
    /\ UNCHANGED <<pullImages, taskContainers, hasMap, cLock, demand, requested,
                   running, scaling, docker, panicked>>
    /\ UNCHANGED <<tooMany, tooFew, cur, left, obsVars, initVars, faults, gone, picked, hist>>

(* ------------------------------ the daemon ----------------------------- *)

Held == {u.id : u \in BagToSet(units)}
Recorded == {id \in Ids : \E t \in Tasks : taskContainers[t][id] # NoRecord}
Listed == IF opc \in {"listed", "locked"}
             THEN {id \in Ids : containers[id].status # NoContainer} ELSE {}

\* Identifiers are never handed out twice by the daemon; an identifier of
\* which no trace is left anywhere stands for a fresh one.
FreeIds == {id \in Ids : docker[id].status = NoContainer} \ (Held \cup Recorded \cup Listed)

SetStatus(id, st) == [docker EXCEPT ![id].status = st]

\* A container exits by itself, or a removal tried from outside leaves an
\* exited container dead.
Drift(id) ==
    /\ Alive
    /\ \/ docker[id].status = StatusUp /\ docker' = SetStatus(id, StatusExited)
       \/ docker[id].status = StatusExited /\ docker' = SetStatus(id, StatusDead)
    /\ Fault
    /\ UNCHANGED <<pullImages, taskContainers, hasMap, cLock, tasksLock, demand,
                   requested, running, scaling, units, panicked>>
    /\ UNCHANGED <<scaleVars, obsVars, initVars, gone, picked, hist>>

(* ------------------------- the actuation goroutines -------------------- *)

unitFrame == <<pullImages, hasMap, cLock, tasksLock, demand, requested, running,
               scaleVars, obsVars, initVars, hist>>

\* Lines 105 and 166: the goroutine registers itself with the WaitGroup.
Add(u) ==
    /\ Alive
    /\ u.pc = "add"
    /\ scaling' = scaling + 1
    /\ units' = Step(u, [u EXCEPT !.pc = IF u.kind = "start" THEN "create" ELSE "stop"])
    /\ UNCHANGED <<taskContainers, docker, panicked>>
    /\ NoFault
    /\ UNCHANGED <<gone, picked>>
    /\ UNCHANGED unitFrame

\* A goroutine that ends without giving its registration back.
NeverDone(u) == scaling' = scaling /\ units' = Retire(u)

\* The deferred scaling.Done() of lines 106 and 167.
Done(u) == scaling' = scaling - 1 /\ units' = Retire(u)

\* Lines 109-115.
CreateContainer(u) ==
    /\ Alive
    /\ u.kind = "start" /\ u.pc = "create"
    /\ \/ /\ FreeIds # {}
          /\ LET id == CHOOSE i \in FreeIds : \A j \in FreeIds : i <= j
             IN  /\ docker' = [docker EXCEPT ![id] = [status |-> StatusCreated, label |-> u.task]]
                 /\ units' = Step(u, [u EXCEPT !.id = id, !.pc = "created"])
                 /\ gone' = gone \ {id}
                 /\ picked' = picked \ {id}
          /\ UNCHANGED scaling
          /\ NoFault
       \/ Done(u) /\ UNCHANGED <<docker, gone, picked>> /\ Fault
    /\ UNCHANGED <<taskContainers, panicked>>
    /\ UNCHANGED unitFrame

\* Lines 117-121.
StoreCreated(u) ==
    /\ Alive
    /\ u.kind = "start" /\ u.pc = "created"
    /\ cLock = ""
    /\ IF u.task \in hasMap
          THEN /\ taskContainers' = [taskContainers EXCEPT
                      ![u.task][u.id] = dockerContainer("created")]
               /\ units' = Step(u, [u EXCEPT !.pc = "start"])
               /\ UNCHANGED panicked
          ELSE \* assignment to an entry of a nil map
               /\ panicked' = TRUE
               /\ UNCHANGED <<taskContainers, units>>
    /\ UNCHANGED <<scaling, docker>>
    /\ NoFault
    /\ UNCHANGED <<gone, picked>>
    /\ UNCHANGED unitFrame

\* A goroutine that goes on after StartContainer returned an error.
StartContainerUnchecked(u) ==
    /\ Alive
    /\ u.kind = "start" /\ u.pc = "start"
    /\ \/ /\ docker[u.id].status = StatusCreated
          /\ docker' = SetStatus(u.id, StatusUp)
          /\ NoFault
       \/ UNCHANGED docker /\ Fault
    /\ units' = Step(u, [u EXCEPT !.pc = "started"])
    /\ UNCHANGED scaling
    /\ UNCHANGED <<taskContainers, panicked>>
    /\ UNCHANGED <<gone, picked>>
    /\ UNCHANGED unitFrame

\* Lines 125-129.
StartContainer(u) ==
    /\ Alive
    /\ u.kind = "start" /\ u.pc = "start"
    /\ \/ /\ docker[u.id].status = StatusCreated
          /\ docker' = SetStatus(u.id, StatusUp)
          /\ units' = Step(u, [u EXCEPT !.pc = "started"])
          /\ UNCHANGED scaling
          /\ NoFault
       \/ Done(u) /\ UNCHANGED docker /\ Fault
    /\ UNCHANGED <<taskContainers, panicked>>
    /\ UNCHANGED <<gone, picked>>
    /\ UNCHANGED unitFrame

\* The state a unit writes after its runtime call succeeded (lines 134, 177).
StartedState == "starting"
StoppedState == "removing"

\* Lines 133-135, and the end of the goroutine.
StoreStarting(u) ==
    /\ Alive
    /\ u.kind = "start" /\ u.pc = "started"
    /\ cLock = ""
    /\ IF taskContainers[u.task][u.id] # NoRecord
          THEN /\ taskContainers' = [taskContainers EXCEPT
                      ![u.task][u.id].state = StartedState]
               /\ Done(u)
               /\ UNCHANGED panicked
          ELSE \* the record is a nil pointer
               /\ panicked' = TRUE
               /\ UNCHANGED <<taskContainers, units, scaling>>
    /\ UNCHANGED docker
    /\ NoFault
    /\ UNCHANGED <<gone, picked>>
    /\ UNCHANGED unitFrame

\* Lines 170-174.
StopContainer(u) ==
    /\ Alive
    /\ u.kind = "stop" /\ u.pc = "stop"
    /\ \/ /\ docker[u.id].status = StatusUp
          /\ docker' = SetStatus(u.id, StatusExited)
          /\ units' = Step(u, [u EXCEPT !.pc = "stopped"])
          /\ UNCHANGED scaling
          /\ NoFault
       \/ Done(u) /\ UNCHANGED docker /\ Fault
    /\ UNCHANGED <<taskContainers, panicked>>
    /\ UNCHANGED <<gone, picked>>
    /\ UNCHANGED unitFrame

\* Lines 176-178.
StoreRemoving(u) ==
    /\ Alive
    /\ u.kind = "stop" /\ u.pc = "stopped"
    /\ cLock = ""
    /\ IF taskContainers[u.task][u.id] # NoRecord
          THEN /\ taskContainers' = [taskContainers EXCEPT
                      ![u.task][u.id].state = StoppedState]
               /\ units' = Step(u, [u EXCEPT !.pc = "remove"])
               /\ UNCHANGED panicked
          ELSE \* the record is a nil pointer
               /\ panicked' = TRUE
               /\ UNCHANGED <<taskContainers, units>>
    /\ UNCHANGED <<scaling, docker>>
    /\ NoFault
    /\ UNCHANGED <<gone, picked>>
    /\ UNCHANGED unitFrame

\* Line 181: the daemon takes up the removal, or refuses it.
RemoveContainer(u) ==
    /\ Alive
    /\ u.kind = "stop" /\ u.pc = "remove"
    /\ \/ /\ docker[u.id].status \in {StatusExited, StatusDead}
          /\ docker' = SetStatus(u.id, StatusRemoval)
          /\ units' = Step(u, [u EXCEPT !.pc = "removal"])
          /\ UNCHANGED scaling
          /\ NoFault
       \/ Done(u) /\ UNCHANGED docker /\ Fault
    /\ UNCHANGED <<taskContainers, panicked>>
    /\ UNCHANGED <<gone, picked>>
    /\ UNCHANGED unitFrame

\* Lines 181-185: the removal ends: the container is gone, or it is left
\* dead and the call fails; then the end of the goroutine.
Removed(u) ==
    /\ Alive
    /\ u.kind = "stop" /\ u.pc = "removal"
    /\ \/ /\ docker' = [docker EXCEPT ![u.id] = [status |-> NoContainer, label |-> ""]]
          /\ gone' = IF u.id \in Recorded THEN gone \cup {u.id} ELSE gone
          /\ NoFault
       \/ /\ docker' = SetStatus(u.id, StatusDead)
          /\ UNCHANGED gone
          /\ Fault
    /\ Done(u)
    /\ UNCHANGED <<taskContainers, panicked, picked>>
    /\ UNCHANGED unitFrame

(* ------------------------------ CountAllTasks -------------------------- *)

\* Lines 289-300: the reported containers whose label names task t.
\* (GetTask succeeds for every task of the collection.)
Reported(list, t) == {id \in Ids : list[id].status # NoContainer /\ list[id].label = t}

\* Lines 281-283 and 301-306: the record the pass works on: the one in the
\* map with its flag reset, or a new zero record.
Prior(tc, t, id) ==
    IF tc[t][id] = NoRecord THEN dockerContainer("") ELSE [tc[t][id] EXCEPT !.updated = FALSE]

\* A count that leaves out the containers a stop goroutine is at work on.
CountsUnlessStopping(state, newState) ==
    newState = "running" /\ state \notin {"stopping", "removing"}

\* Lines 308-310: the report is counted, whatever the record says.
CountsAsRunning(state, newState) == newState = "running"

\* A switch that takes the daemon's word whenever the container runs or is dead.
ObservedOverwrites(state, newState) ==
    IF newState = "running" \/ newState = "dead" THEN newState ELSE state

\* Lines 308-328: the state of a record after the daemon reported newState.
Observed(state, newState) ==
    IF newState = "running"
       THEN IF state = "starting" \/ state = "" THEN newState ELSE state
    ELSE IF newState = "dead" THEN newState
    ELSE state

\* A collector that also takes the records of stops still under way.
DeletableOrStopping(state) == state = "removing" \/ state = "exited" \/ state = "stopping"

\* Line 340.
Deletable(state) == state = "removing" \/ state = "exited"

\* Line 343.
Expected(state) == state = "created" \/ state = "starting" \/ state = "stopping"

\* Line 310: the reports of the pass that increment Task.Running.
Counted(tc, list, t) ==
    {id \in Reported(list, t) :
        CountsAsRunning(Prior(tc, t, id).state, statusToState(list[id].status))}

\* A count that is not reset at the start of the pass.
RunningKept(old, n) == old + n

\* Lines 279 and 310: Task.Running is reset, then incremented.
RunningAfter(old, n) == 0 + n

\* Lines 276-348: the task's map after the pass.
Reconciled(tc, list, t) ==
    [id \in Ids |->
        IF id \in Reported(list, t)
           THEN [state |-> Observed(Prior(tc, t, id).state, statusToState(list[id].status)),
                 updated |-> TRUE]
        ELSE IF tc[t][id] = NoRecord \/ Deletable(tc[t][id].state) THEN NoRecord
        ELSE Prior(tc, t, id)]

\* The messages a pass logs with log.Errorf or log.Infof, each with the
\* container it is about.
Anomalies(tc, list, t) ==
    LET seen == Reported(list, t)
        new(id) == statusToState(list[id].status)
        old(id) == Prior(tc, t, id).state
    IN  {<<"no previous record", id>> : id \in {i \in seen : tc[t][i] = NoRecord}}
        \cup {<<"unexpected status", id>> : id \in {i \in seen : new(i) = "unknown"}}
        \cup {<<"removed but not terminated", id>> :
                 id \in {i \in seen : \/ new(i) = "removing" /\ old(i) # "removing"
                                      \/ new(i) = "exited" /\ old(i) \notin {"stopping", "exited"}}}
        \cup {<<"dead", id>> : id \in {i \in seen : new(i) = "dead" /\ old(i) # "dead"}}
        \cup {<<"bad state", id>> :
                 id \in {i \in Ids \ seen : /\ tc[t][i] # NoRecord
                                            /\ ~Deletable(tc[t][i].state)
                                            /\ ~Expected(tc[t][i].state)}}

AllAnomalies(tc, list) == UNION {Anomalies(tc, list, t) : t \in Tasks}

\* Line 305 writes into a nil map when the task was never initialised.
NilMapWrite(hm, list) == \E t \in Tasks \ hm : Reported(list, t) # {}

\* Line 266.
ListContainers(ok) ==
    /\ Alive
    /\ opc \in {"idle", "done"}
    /\ IF ok THEN opc' = "listed" /\ containers' = docker /\ NoFault
             ELSE opc' = "idle" /\ containers' = NoList /\ Fault
    /\ UNCHANGED <<progVars, scaleVars, initVars, gone, picked, hist>>

\* Line 271.
LockTasks ==
    /\ Alive
    /\ opc = "listed"
    /\ tasksLock = ""
    /\ tasksLock' = "CountAllTasks"
    /\ opc' = "locked"
    /\ UNCHANGED <<pullImages, taskContainers, hasMap, cLock, demand, requested,
                   running, scaling, units, docker, panicked>>
    /\ UNCHANGED <<containers, scaleVars, initVars, faults, gone, picked, hist>>

\* Lines 273-350, under both locks.
Reconcile ==
    /\ Alive
    /\ opc = "locked"
    /\ cLock = ""
    /\ IF NilMapWrite(hasMap, containers)
          THEN /\ panicked' = TRUE
               /\ UNCHANGED <<taskContainers, running, tasksLock, opc>>
          ELSE /\ running' = [t \in Tasks |->
                     RunningAfter(running[t], Cardinality(Counted(taskContainers, containers, t)))]
               /\ taskContainers' = [t \in Tasks |-> Reconciled(taskContainers, containers, t)]
               /\ tasksLock' = ""
               /\ opc' = "done"
               /\ UNCHANGED panicked
    /\ UNCHANGED <<pullImages, hasMap, cLock, demand, requested, scaling, units, docker>>
    /\ gone' = IF panicked' THEN gone
                ELSE {id \in gone : \E t \in Tasks : taskContainers'[t][id] # NoRecord}
    /\ UNCHANGED picked
    /\ UNCHANGED <<containers, scaleVars, initVars, faults>>

\* The containers a pass counts as running while their record says that a
\* stop goroutine is at work on them.
Busy(tc, list) ==
    UNION {{id \in Counted(tc, list, t) : tc[t][id].state \in {"stopping", "removing"}} :
              t \in Tasks}

CountAllTasks ==
    /\ Reconcile
    /\ hist' = IF panicked' THEN hist
                ELSE [NoHist EXCEPT !.busy = Busy(taskContainers, containers)]

(* ------------------------------ specification -------------------------- *)

\* The steps of the scheduler, its goroutines and the daemon.
\* The steps of the passes, of the goroutines and of the daemon.
Work ==
    \/ StopStartTasks
    \/ stopTask
    \/ startTask
    \/ ScaleReturn
    \/ \E id \in Ids : Drift(id)
    \/ \E u \in BagToSet(units) : Add(u)
    \/ \E u \in BagToSet(units) : CreateContainer(u)
    \/ \E u \in BagToSet(units) : StoreCreated(u)
    \/ \E u \in BagToSet(units) : StartContainer(u)
    \/ \E u \in BagToSet(units) : StoreStarting(u)
    \/ \E u \in BagToSet(units) : StopContainer(u)
    \/ \E u \in BagToSet(units) : StoreRemoving(u)
    \/ \E u \in BagToSet(units) : RemoveContainer(u)
    \/ \E u \in BagToSet(units) : Removed(u)
    \/ \E ok \in BOOLEAN : ListContainers(ok)
    \/ LockTasks

Run ==
    \/ \E ok \in BOOLEAN : PullImage(ok)
    \/ Work

\* One task of the collection is registered and given demand, at any time
\* and in any order; the other stays an idle member of the collection.
Next ==
    \/ \E d \in 0 .. MaxDemand : SetDemand("a", d)
    \/ InitScheduler("a")
    \/ Run
    \/ CountAllTasks

Spec == Init /\ [][Next]_vars

\* The same, with a caller that registers a task once only.
OnceNext ==
    \/ \E d \in 0 .. MaxDemand : SetDemand("a", d)
    \/ "a" \notin hasMap /\ InitScheduler("a")
    \/ Run
    \/ CountAllTasks

OnceSpec == Init /\ [][OnceNext]_vars

\* Both tasks are registered before the first pass, as main() does, and both
\* are given demand.
DuoInit ==
    /\ pullImages = TRUE
    /\ taskContainers = [t \in Tasks |-> EmptyMap]
    /\ hasMap = Tasks
    /\ cLock = ""
    /\ tasksLock = ""
    /\ demand = Zero /\ requested = Zero /\ running = Zero
    /\ scaling = 0
    /\ units = EmptyBag
    /\ docker = NoList
    /\ panicked = FALSE
    /\ faults = 0
    /\ spc = "idle" /\ tooMany = {} /\ tooFew = {} /\ cur = "" /\ left = 0
    /\ err = "nil"
    /\ req0 = Zero /\ nStop = Zero /\ nStart = Zero /\ stopFailed = FALSE
    /\ opc = "idle" /\ containers = NoList
    /\ ipc = "idle" /\ itask = "" /\ initErr = "nil"
    /\ gone = {} /\ picked = {}
    /\ hist = NoHist

DuoNext ==
    \/ \E t \in Tasks, d \in 0 .. MaxDuoDemand : SetDemand(t, d)
    \/ \E t \in Tasks : InitScheduler(t)
    \/ Run
    \/ CountAllTasks

DuoSpec == DuoInit /\ [][DuoNext]_vars

\* The scheduler's callers keep calling, the goroutines keep running and the
\* daemon answers every call; a mutex is handed to every waiter in the end
\* (sync.Mutex starves no one), so the steps that take one are strongly fair.
Fairness ==
    /\ SF_vars(StopStartTasks)
    /\ SF_vars(stopTask)
    /\ SF_vars(startTask)
    /\ SF_vars(ScaleReturn)
    /\ WF_vars(ListContainers(TRUE))
    /\ SF_vars(LockTasks)
    /\ WF_vars(CountAllTasks)
    /\ WF_vars(\E u \in BagToSet(units) : Add(u))
    /\ WF_vars(\E u \in BagToSet(units) : CreateContainer(u))
    /\ SF_vars(\E u \in BagToSet(units) : StoreCreated(u))
    /\ WF_vars(\E u \in BagToSet(units) : StartContainer(u))
    /\ SF_vars(\E u \in BagToSet(units) : StoreStarting(u))
    /\ WF_vars(\E u \in BagToSet(units) : StopContainer(u))
    /\ SF_vars(\E u \in BagToSet(units) : StoreRemoving(u))
    /\ WF_vars(\E u \in BagToSet(units) : RemoveContainer(u))
    /\ WF_vars(\E u \in BagToSet(units) : Removed(u))

\* Both tasks are registered, the demand of one is set at any time, and the
\* passes run for ever.
FairInit ==
    /\ pullImages = TRUE
    /\ taskContainers = [t \in Tasks |-> EmptyMap]
    /\ hasMap = Tasks
    /\ cLock = ""
    /\ tasksLock = ""
    /\ demand = Zero /\ requested = Zero /\ running = Zero
    /\ scaling = 0
    /\ units = EmptyBag
    /\ docker = NoList
    /\ panicked = FALSE
    /\ faults = 0
    /\ spc = "idle" /\ tooMany = {} /\ tooFew = {} /\ cur = "" /\ left = 0
    /\ err = "nil"
    /\ req0 = Zero /\ nStop = Zero /\ nStart = Zero /\ stopFailed = FALSE
    /\ opc = "idle" /\ containers = NoList
    /\ ipc = "idle" /\ itask = "" /\ initErr = "nil"
    /\ gone = {} /\ picked = {}
    /\ hist = NoHist

FairNext ==
    \/ \E d \in 0 .. MaxDemand : SetDemand("a", d)
    \/ Work
    \/ CountAllTasks

FairSpec == FairInit /\ [][FairNext]_vars /\ Fairness

\* Every step that is under way is taken in the end: a daemon call returns,
\* a goroutine is scheduled, a free mutex is taken by the one who waits for
\* it.  The collection's lock goes back and forth between the passes, so the
\* CountAllTasks pass that waits for it needs strong fairness; the
\* scheduler's mutex is held from one step to the next by InitScheduler
\* alone.  No caller is bound to start a pass or to register a task.
Returning ==
    /\ WF_vars(\E ok \in BOOLEAN : PullImage(ok))
    /\ WF_vars(stopTask)
    /\ WF_vars(startTask)
    /\ WF_vars(ScaleReturn)
    /\ SF_vars(LockTasks)
    /\ WF_vars(CountAllTasks)
    /\ WF_vars(\E u \in BagToSet(units) : Add(u))
    /\ WF_vars(\E u \in BagToSet(units) : CreateContainer(u))
    /\ WF_vars(\E u \in BagToSet(units) : StoreCreated(u))
    /\ WF_vars(\E u \in BagToSet(units) : StartContainer(u))
    /\ WF_vars(\E u \in BagToSet(units) : StoreStarting(u))
    /\ WF_vars(\E u \in BagToSet(units) : StopContainer(u))
    /\ WF_vars(\E u \in BagToSet(units) : StoreRemoving(u))
    /\ WF_vars(\E u \in BagToSet(units) : RemoveContainer(u))
    /\ WF_vars(\E u \in BagToSet(units) : Removed(u))

\* All the operations, running side by side, for one task that is asked for
\* one container at most.
LiveNext ==
    \/ \E d \in 0 .. MaxDuoDemand : SetDemand("a", d)
    \/ InitScheduler("a")
    \/ Run
    \/ CountAllTasks

LiveSpec == Init /\ [][LiveNext]_vars /\ Returning

\* CountAllTasks alone, on every ledger and every daemon: each identifier is
\* unknown to the daemon or a container of one task in any status, and is
\* recorded for at most one task (the task of its label, if the daemon knows
\* it) in any state the code writes.
DockerEntries ==
    {[status |-> NoContainer, label |-> ""]}
        \cup [status : Statuses, label : Tasks]

Ledgers ==
    {tc \in [Tasks -> [Ids -> {NoRecord} \cup {dockerContainer(st) : st \in RecStates}]] :
        \A id \in Ids : \A t, r \in Tasks :
            (tc[t][id] # NoRecord /\ tc[r][id] # NoRecord) => t = r}

ObsInit ==
    /\ pullImages = TRUE
    /\ docker \in [Ids -> DockerEntries]
    /\ taskContainers \in Ledgers
    /\ \A id \in Ids : \A t \in Tasks :
           (taskContainers[t][id] # NoRecord /\ docker[id].status # NoContainer)
               => docker[id].label = t
    /\ hasMap = Tasks
    /\ cLock = ""
    /\ tasksLock = ""
    /\ demand = Zero /\ requested = Zero /\ running = Zero
    /\ scaling = 0
    /\ units = EmptyBag
    /\ panicked = FALSE
    /\ faults = 0
    /\ spc = "idle" /\ tooMany = {} /\ tooFew = {} /\ cur = "" /\ left = 0
    /\ err = "nil"
    /\ req0 = Zero /\ nStop = Zero /\ nStart = Zero /\ stopFailed = FALSE
    /\ opc = "idle" /\ containers = NoList
    /\ ipc = "idle" /\ itask = "" /\ initErr = "nil"
    /\ gone = {} /\ picked = {}
    /\ hist = NoHist

\* A pass, with the record of what it and the pass before it did.
CountAllTasksTraced ==
    /\ Reconcile
    /\ LET anoms == AllAnomalies(taskContainers, containers)
           busy == Busy(taskContainers, containers)
       IN  hist' =
             IF panicked' THEN hist
             ELSE IF hist.passes > 0 /\ hist.list = containers
                THEN [hist EXCEPT !.passes = 2, !.again = anoms, !.busy = busy]
                ELSE [passes |-> 1, list |-> containers, store |-> taskContainers',
                      running |-> running', anoms |-> anoms, again |-> {}, busy |-> busy]

ObsNext ==
    \/ \E ok \in BOOLEAN : ListContainers(ok)
    \/ LockTasks
    \/ CountAllTasksTraced

ObsSpec == ObsInit /\ [][ObsNext]_vars

\* CountAllTasks alone again, when InitScheduler was called for any part of
\* the task collection: a task without a map has no records, and the daemon
\* may still hold containers that carry its label.
StrayInit ==
    /\ pullImages = TRUE
    /\ hasMap \in SUBSET Tasks
    /\ docker \in [Ids -> DockerEntries]
    /\ taskContainers \in Ledgers
    /\ \A t \in Tasks \ hasMap : taskContainers[t] = EmptyMap
    /\ \A id \in Ids : \A t \in Tasks :
           (taskContainers[t][id] # NoRecord /\ docker[id].status # NoContainer)
               => docker[id].label = t
    /\ cLock = ""
    /\ tasksLock = ""
    /\ demand = Zero /\ requested = Zero /\ running = Zero
    /\ scaling = 0
    /\ units = EmptyBag
    /\ panicked = FALSE
    /\ faults = 0
    /\ spc = "idle" /\ tooMany = {} /\ tooFew = {} /\ cur = "" /\ left = 0
    /\ err = "nil"
    /\ req0 = Zero /\ nStop = Zero /\ nStart = Zero /\ stopFailed = FALSE
    /\ opc = "idle" /\ containers = NoList
    /\ ipc = "idle" /\ itask = "" /\ initErr = "nil"
    /\ gone = {} /\ picked = {}
    /\ hist = NoHist

StraySpec == StrayInit /\ [][ObsNext]_vars

(* ------------------------------- the claims ---------------------------- *)

InPass == spc \in {"down", "up", "wait"}

\* C1. StopStartTasks does not return while a goroutine it spawned in this
\* pass is unfinished, even one that has not yet called scaling.Add.
JoinBarrier ==
    [][(spc = "wait" /\ spc' = "idle") => \A u \in BagToSet(units) : ~u.mine]_vars

\* C2. A pass issues Start or Stop invocations for a task only if, at the
\* start of the pass, requested = running and demand # requested; for any
\* other task it issues none and leaves requested as it was.  (Demand and
\* Running cannot change during the pass: the pass holds the collection's
\* lock.)
Gating ==
    InPass =>
        \A t \in Tasks :
            (req0[t] # running[t] \/ demand[t] = req0[t]) =>
                nStop[t] = 0 /\ nStart[t] = 0 /\ requested[t] = req0[t]

\* A pass has run to its wait and skipped a task whose demand differs from
\* its requested count because requested # running.
GatingWitness ==
    /\ spc = "wait"
    /\ \E t \in Tasks : req0[t] # running[t] /\ demand[t] # req0[t] /\ hasMap # {}

\* C3. For every task a pass selects, the pass makes exactly
\* |demand - requested| Stop invocations (demand < requested) or Start
\* invocations (demand > requested), changes requested by one per invocation
\* and ends with requested = demand, whether the invocations succeed or not.
PassAccounting ==
    InPass =>
        \A t \in Tasks :
            /\ requested[t] = req0[t] - nStop[t] + nStart[t]
            /\ (spc = "wait" /\ req0[t] = running[t] /\ demand[t] # req0[t]) =>
                  /\ requested[t] = demand[t]
                  /\ demand[t] < req0[t] => nStop[t] = req0[t] - demand[t] /\ nStart[t] = 0
                  /\ demand[t] > req0[t] => nStart[t] = demand[t] - req0[t] /\ nStop[t] = 0

\* A pass has made two Stop invocations for one task, one of which found no
\* container to stop, and has reached its wait.
PassAccountingWitness ==
    /\ spc = "wait"
    /\ stopFailed
    /\ \E t \in Tasks : nStop[t] = 2 /\ Killable(t) = {} /\ BagCardinality(units) = 1

\* The reports of a list that carry task t's label and an "Up" status.
UpIn(list, t) ==
    {id \in Ids : list[id].label = t /\ \E i \in DOMAIN list[id].status : list[id].status[i] = "Up"}

\* C6. After a CountAllTasks pass, the running count of every managed task is
\* the number of containers of the list the pass used that carry the task's
\* label and an "Up" status, whatever the count was before and whatever the
\* records of those containers say.
RunningCount ==
    opc = "done" => \A t \in hasMap : running[t] = Cardinality(UpIn(containers, t))

\* A pass has counted a container that the daemon reported "Up" while its
\* record was stopping or removing.
RunningCountWitness ==
    /\ opc = "done"
    /\ \E t \in hasMap : \E id \in UpIn(containers, t) : id \in hist.busy /\ running[t] >= 1

\* C4. Within a pass every Stop invocation is issued before the first Start
\* invocation: no Start has been issued while a task of tooMany still has a
\* Stop to come.
DownBeforeUp ==
    (InPass /\ tooMany # {}) => \A t \in Tasks : nStart[t] = 0

\* A pass has issued a Stop for one task and a Start for another.
DownBeforeUpWitness ==
    spc = "wait" /\ \E t, r \in Tasks : nStop[t] > 0 /\ nStart[r] > 0

\* C5. The pass returns a non-nil error whenever one of its Stop invocations
\* failed with NoContainerToStop, even if a later Stop invocation succeeded.
ErrorAggregation ==
    (spc = "wait" /\ stopFailed) => err # "nil"

\* C7. Once a stop goroutine has stopped and removed container X, the record
\* of X is gone after the next CountAllTasks pass whose list does not hold X,
\* whatever the passes in between saw.
CollectedAfterStop ==
    [][(opc = "locked" /\ opc' = "done") =>
          \A id \in gone :
              containers[id].status = NoContainer =>
                  \A t \in Tasks : taskContainers'[t][id] = NoRecord]_vars

Converged == \A t \in Tasks : running[t] = requested[t] /\ requested[t] = demand[t]

\* A goroutine is at a daemon call that the daemon cannot carry out: no
\* identifier is left for a new container, or the container is not in the
\* status the call needs.
Blocked ==
    \E u \in BagToSet(units) :
        \/ u.pc = "create" /\ FreeIds = {}
        \/ u.pc = "start" /\ docker[u.id].status # StatusCreated
        \/ u.pc = "stop" /\ docker[u.id].status # StatusUp
        \/ u.pc = "remove" /\ docker[u.id].status \notin {StatusExited, StatusDead}

\* C8. Once every daemon call succeeds (no run has more than MaxFaults
\* failures) and the demand is set no more, with passes of both kinds kept
\* running, every task reaches running = requested = demand again and again,
\* whatever failed before; unless the process has died or a goroutine waits
\* for a call the daemon of this model cannot carry out.
Convergence ==
    <>[][demand' = demand]_vars => ([]<>Converged \/ <>(panicked \/ Blocked))

\* C9. InitScheduler called for a task that already has an entry fails with
\* AlreadyManaged and leaves the records of the task as they are.
DuplicateRegistration ==
    [][(ipc = "idle" /\ ipc' = "pull" /\ itask' \in hasMap) =>
          /\ initErr' = "AlreadyManaged"
          /\ taskContainers'[itask'] = taskContainers[itask']]_vars

\* C10. Two CountAllTasks passes in a row on the same list, with nothing in
\* between: the second leaves the running counts and the ledger as the first
\* left them, and logs nothing that the first did not log.
Idempotent ==
    (opc = "done" /\ hist.passes = 2) =>
        /\ running = hist.running
        /\ taskContainers = hist.store
        /\ hist.again \subseteq hist.anoms

\* The second pass has run on a list that reports, as being removed, a
\* container that had no record before the first pass.
IdempotentWitness ==
    /\ opc = "done" /\ hist.passes = 2
    /\ \E id \in Ids : /\ containers[id].status = StatusRemoval
                       /\ <<"no previous record", id>> \in hist.anoms
                       /\ <<"removed but not terminated", id>> \in hist.again

\* C11. A CountAllTasks pass whose list holds a container labelled with a
\* task that has no map in the store runs to its end and leaves that task
\* without records: the container is ignored.
UnmanagedIgnored ==
    [][(opc = "locked" /\ \E t \in Tasks \ hasMap : Reported(containers, t) # {}) =>
          /\ opc' = "done"
          /\ ~panicked'
          /\ \A t \in Tasks \ hasMap : taskContainers'[t] = EmptyMap]_vars

\* The steps of a StopStartTasks pass, of a goroutine, of a CountAllTasks
\* pass and of InitScheduler, told by what only they change.
ScaleStep == spc' # spc \/ nStop' # nStop \/ nStart' # nStart
UnitStep == units' # units \/ scaling' # scaling
ObserveStep == opc' # opc \/ containers' # containers
InitStep == ipc' # ipc \/ hasMap' # hasMap

\* C12. A StopStartTasks pass and its goroutines never change Running or
\* Demand of any task, a CountAllTasks pass never changes Requested or
\* Demand, and InitScheduler changes none of the three.
CounterOwnership ==
    [][/\ (ScaleStep \/ UnitStep) => (running' = running /\ demand' = demand)
       /\ ObserveStep => (requested' = requested /\ demand' = demand)
       /\ InitStep => (running' = running /\ requested' = requested /\ demand' = demand)]_vars

\* A pass has issued a Stop and waits, with Running still what the last
\* CountAllTasks pass counted.
CounterOwnershipWitness ==
    /\ spc = "wait" /\ opc = "done"
    /\ \E t \in hasMap : nStop[t] > 0 /\ running[t] = req0[t] /\ requested[t] = demand[t]

\* A picked container is not recorded as running.
NeverRunningAgain ==
    \A id \in picked : \A t \in Tasks : taskContainers[t][id].state # "running"

\* No goroutine is spawned to stop a container that was picked before.
PickedOnce ==
    \A id \in picked : \A u \in BagToSet(units') :
        (u.kind = "stop" /\ u.id = id /\ u.pc = "add" /\ u.mine) =>
            CopiesIn(u, units') <= CopiesIn(u, units)

\* C13. A container that a stopTask call has picked and marked stopping is
\* never recorded as running again, and no later stopTask call picks it.
StopExclusive == []NeverRunningAgain /\ [][PickedOnce]_vars

\* A CountAllTasks pass has found a picked container still up and has left
\* its record at stopping.
StopExclusiveWitness ==
    /\ opc = "done"
    /\ \E id \in picked \cap hist.busy :
           \E t \in Tasks : taskContainers[t][id].state = "stopping"

\* C14. A CountAllTasks pass changes the state of a reported container's
\* record, old or new, in two cases only: reported running with the record
\* at starting or unset, it becomes running; reported dead, it becomes dead.
\* In every other case the state stays: stopping and removing never turn
\* into running.
TransitionRules ==
    [][(opc = "locked" /\ opc' = "done") =>
          \A t \in Tasks : \A id \in Ids :
              (containers[id].status # NoContainer /\ containers[id].label = t) =>
                  LET old == IF taskContainers[t][id] = NoRecord THEN ""
                             ELSE taskContainers[t][id].state
                      seen == statusToState(containers[id].status)
                  IN  taskContainers'[t][id].state =
                          IF seen = "running" /\ old \in {"starting", ""} THEN "running"
                          ELSE IF seen = "dead" THEN "dead"
                          ELSE old]_vars

\* A pass has left at stopping or removing the record of a container that
\* its list reported up.
TransitionRulesWitness ==
    /\ opc = "done"
    /\ \E t \in Tasks : \E id \in Ids :
           /\ containers[id].status = StatusUp /\ containers[id].label = t
           /\ taskContainers[t][id].updated
           /\ taskContainers[t][id].state \in {"stopping", "removing"}

\* C15. StopStartTasks issues no Start or Stop invocation for a task while a
\* goroutine that an earlier pass spawned for that task is unfinished.
NoRescaleInFlight ==
    [][\A t \in Tasks :
          (nStart'[t] > nStart[t] \/ nStop'[t] > nStop[t]) =>
              ~\E u \in BagToSet(units) : u.task = t /\ ~u.mine]_vars

\* C16. No operation holds the DockerScheduler mutex while a call of its own
\* to the daemon is in progress.  (The goroutines, stopTask and CountAllTasks
\* take the mutex for single steps between their calls; InitScheduler is the
\* operation that keeps it from one step to the next.)
LockDiscipline == ipc = "pull" => cLock # "InitScheduler"

\* The record of a container is never ahead of the daemon calls that
\* succeeded for it: not starting while the container is still only created,
\* not removing while it is still up.
RecordBehind ==
    \A t \in Tasks : \A id \in Ids :
        /\ docker[id].status = StatusCreated => taskContainers[t][id].state # "starting"
        /\ docker[id].status = StatusUp => taskContainers[t][id].state # "removing"

\* A start goroutine that ends after StartContainer succeeded leaves the
\* record at starting.
EndsStarting ==
    \A u \in BagToSet(units) :
        (u.pc = "started" /\ scaling' < scaling /\ CopiesIn(u, units') < CopiesIn(u, units))
            => taskContainers'[u.task][u.id].state = "starting"

\* A goroutine whose daemon call fails ends there.
NoRetry ==
    (faults' > faults /\ units' # units) => BagCardinality(units') < BagCardinality(units)

\* C17. A goroutine never moves a record past a daemon call that failed:
\* after a failed create there is no record, after a failed start the record
\* stays at created, after both it is at starting; after a failed stop the
\* record stays at stopping, after a failed remove at removing; a failed
\* call is not tried again.
FailedStepKept == []RecordBehind /\ [][EndsStarting /\ NoRetry]_vars

\* StartContainer has failed, the goroutine has ended, and the record of the
\* container is at created.
FailedStepKeptWitness ==
    /\ faults > 0
    /\ \E t \in Tasks : \E id \in Ids \ Held :
           docker[id].status = StatusCreated /\ taskContainers[t][id].state = "created"

\* C18. At the end of a CountAllTasks pass a record is deleted exactly when
\* the list of the pass did not report it and its state is removing or
\* exited; an unreported record at created, starting or stopping stays as it
\* is and nothing is logged about it; an unreported record in any other
\* state stays and is logged as a bad state; a reported record stays.
CollectionRule ==
    [][(opc = "locked" /\ opc' = "done") =>
          LET logged == IF hist'.passes = 2 THEN hist'.again ELSE hist'.anoms
          IN  \A t \in Tasks : \A id \in Ids :
                taskContainers[t][id] # NoRecord =>
                  LET st == taskContainers[t][id].state
                      reported == containers[id].status # NoContainer /\ containers[id].label = t
                      deleted == taskContainers'[t][id] = NoRecord
                  IN  /\ deleted <=> (~reported /\ st \in {"removing", "exited"})
                      /\ (~reported /\ ~deleted) => taskContainers'[t][id].state = st
                      /\ (~reported /\ st \in {"created", "starting", "stopping"}) =>
                             <<"bad state", id>> \notin logged
                      /\ (~reported /\ st \in {"running", "dead", ""}) =>
                             <<"bad state", id>> \in logged]_vars

\* A pass has kept an unreported dead record, logged it as a bad state, and
\* kept an unreported stopping record without a word.
CollectionRuleWitness ==
    /\ opc = "done" /\ hist.passes = 1
    /\ \E t \in Tasks : \E id, other \in Ids :
           /\ containers[id].status = NoContainer /\ containers[other].status = NoContainer
           /\ taskContainers[t][id].state = "dead" /\ <<"bad state", id>> \in hist.anoms
           /\ taskContainers[t][other].state = "stopping"
           /\ <<"bad state", other>> \notin hist.anoms

\* C19. Whenever a start goroutine is about to write starting, or a stop
\* goroutine to write removing, the map of its task and the record of its
\* container are there.
UnitRecordPresent ==
    \A u \in BagToSet(units) :
        (u.pc \in {"started", "stopped"} /\ cLock = "") =>
            u.task \in hasMap /\ taskContainers[u.task][u.id] # NoRecord

\* The collection's lock is never taken by the one who holds the scheduler's
\* mutex.
TasksLockFirst ==
    (tasksLock' # tasksLock /\ tasksLock' # "") => cLock # tasksLock'

\* C20. With every daemon call returning, nothing waits for ever: the
\* collection's lock is taken before the scheduler's mutex and never by its
\* holder, a StopStartTasks pass that has taken the collection's lock returns
\* and releases it, a CountAllTasks pass that has its list runs to its end,
\* and the scheduler's mutex is given back; unless the process has died or a
\* goroutine is at a call the daemon of this model cannot carry out.
NoDeadlock ==
    /\ [][TasksLockFirst]_vars
    /\ (spc # "idle") ~> (spc = "idle" \/ panicked \/ Blocked)
    /\ (tasksLock # "") ~> (tasksLock = "" \/ panicked \/ Blocked)
    /\ (opc = "listed") ~> (opc = "done" \/ panicked \/ Blocked)
    /\ (cLock # "") ~> (cLock = "" \/ panicked \/ Blocked)

\* A pass waits for a registered goroutine with the collection's lock in its
\* hands, a CountAllTasks pass has its list and waits for that lock, and
\* InitScheduler holds the scheduler's mutex during its pull.
NoDeadlockWitness ==
    /\ spc = "wait" /\ scaling > 0
    /\ tasksLock = "StopStartTasks" /\ opc = "listed"
    /\ cLock = "InitScheduler" /\ ipc = "pull"
    /\ ~panicked /\ ~Blocked

====
